---- MODULE Spec2Model ----
(***************************************************************************)
(* The Map component of the GeoTIFF viewer: the load effect (map creation, *)
(* loadGeoTIFF, loadStressData), its cleanup, and the Root View's loading  *)
(* flag.  Every action is one synchronous stretch of JavaScript: the       *)
(* effect body, the cleanup, or the continuation that runs when one        *)
(* awaited promise settles.  Leaflet's map and layer control are modelled  *)
(* by what the calls made here do to them.                                 *)
(***************************************************************************)
EXTENDS Naturals, Sequences, FiniteSets, TLC

\* How many times the effect may run (mount, cleanup, re-mount, ...).
MaxRuns == 2

\* urls.length in loadStressData.
NumUrls == 2

Runs == 1..MaxRuns
Urls == 1..NumUrls
Null == 0

VARIABLES
    mapRef,           \* mapRef.current: Null or the id of a map
    layerControlRef,  \* layerControlRef.current: Null or the id of a control
    stressLayersRef,  \* stressLayersRef.current: sequence of layers
    status,           \* the Map component's status state
    loading,          \* the App component's loading state
    effects,          \* how many times the effect body has run
    mounted,          \* the last effect's cleanup has not run yet
    onMap,            \* map id -> overlay layers currently on that map
    overlays,         \* control id -> the control's [layer, name] overlay
                      \* entries (its _layers array; the order is not used)
    viewport,         \* map id -> "world" (setView([0,0],2)) or "raster"
    removed,          \* map id -> number of remove() calls on that map
    run,              \* effect run -> the state of its loadGeoTIFF() call
    probe             \* the last call of style or pixelValuesToColorFn that
                      \* was looked at: its arguments and its result

loadVars == <<mapRef, layerControlRef, stressLayersRef, status, loading, effects,
              mounted, onMap, overlays, viewport, removed, run>>

vars == <<loadVars, probe>>

mapVars == <<onMap, overlays, viewport, removed>>
refVars == <<mapRef, layerControlRef, stressLayersRef>>

----------------------------------------------------------------------------
(* Values *)

Raster(r) == <<r, 0>>
Stress(r, i) == <<r, i>>
IsStress(l) == l[2] > 0

RasterName == "GeoTIFF Base Layer"
StressName(i) == "Stress Sample " \o ToString(i)

RasterUrl == "/optimized_sample.tif"
StressUrls == <<"/stress_sample.json", "/stress_sample_2.json">>

Range(s) == {s[i] : i \in 1..Len(s)}
Last(s) == s[Len(s)]

StFetching == "Fetching GeoTIFF file..."
StParsing == "Parsing GeoTIFF data..."
StCreating == "Creating GeoTIFF layer..."
StDisplayed == "GeoTIFF displayed successfully"
StNoBounds == "GeoTIFF loaded, but no valid bounds"
StStress == "Loading stress data..."
StOverlaid == "Stress data overlaid successfully"

\* error.message of what can be thrown
MsgNetwork == "Failed to fetch"
MsgHttp == "Failed to fetch GeoTIFF: Not Found"
MsgBody == "The operation was aborted"
MsgDecode == "Invalid byte order value"
MsgNoMap == "Cannot read properties of null"
MsgParse == "Unexpected token < in JSON"
MsgBuild == "ndviValue.toFixed is not a function"

RasterErrorStatus(msg) == "Error: " \o msg
StressErrorStatus(msg) == "Error loading stress data: " \o msg

NoRun ==
    [pc |-> "idle", log |-> <<>>, issued |-> <<>>,
     non2xx |-> FALSE,
     rfail |-> "none", vfail |-> "none", fits |-> 0, loadingCalls |-> 0,
     promise |-> "none", rasterAdded |-> FALSE, validBounds |-> FALSE]

----------------------------------------------------------------------------
Init ==
    /\ mapRef = Null
    /\ layerControlRef = Null
    /\ stressLayersRef = <<>>
    /\ status = "Loading map..."
    /\ loading = TRUE
    /\ effects = 0
    /\ mounted = FALSE
    /\ onMap = [m \in Runs |-> {}]
    /\ overlays = [m \in Runs |-> {}]
    /\ viewport = [m \in Runs |-> "none"]
    /\ removed = [m \in Runs |-> 0]
    /\ run = [r \in Runs |-> NoRun]
    /\ probe = [fn |-> "none"]

----------------------------------------------------------------------------
(* The pieces of loadGeoTIFF and loadStressData, as changes to the record  *)
(* of the run that executes them.                                          *)

\* commit what run r did in one continuation: the rendered status is its
\* last setStatus call, and setLoading(false) clears the loading flag
Finish(r, rec) ==
    /\ run' = [run EXCEPT ![r] = rec]
    /\ status' = IF Len(rec.log) > Len(run[r].log) THEN Last(rec.log) ELSE status
    /\ loading' = IF rec.loadingCalls > run[r].loadingCalls THEN FALSE ELSE loading

\* the run is over: its local variables are gone
Locals(rec) ==
    [rec EXCEPT !.pc = "done", !.non2xx = FALSE]

\* a catch that, the first time, reports the error and calls loadGeoTIFF
\* again
RasterCatchRetries(rec, msg) ==
    IF Len(rec.issued) = 1
    THEN [rec EXCEPT !.pc = "rFetch",
                     !.log = Append(@, RasterErrorStatus(msg)),
                     !.issued = Append(@, RasterUrl)]
    ELSE [Locals(rec) EXCEPT !.log = Append(@, RasterErrorStatus(msg)),
                             !.promise = "fulfilled"]

\* catch (error) of loadGeoTIFF; the async function then returns normally
RasterCatch(rec, msg) ==
    [Locals(rec) EXCEPT !.log = Append(@, RasterErrorStatus(msg)),
                        !.promise = "fulfilled"]

\* a catch that also calls setLoading(false)
StressCatchClears(rec, msg) ==
    [Locals(rec) EXCEPT !.log = Append(@, StressErrorStatus(msg)),
                        !.loadingCalls = @ + 1,
                        !.promise = "fulfilled"]

\* a loadStressData without its own try/catch: the error reaches the
\* catch of loadGeoTIFF
StressRethrow(rec, msg) == RasterCatch(rec, msg)

\* catch (error) of loadStressData; it returns normally, so does the
\* await in loadGeoTIFF, and loadGeoTIFF's promise is fulfilled
StressCatch(rec, msg) ==
    [Locals(rec) EXCEPT !.log = Append(@, StressErrorStatus(msg)),
                        !.promise = "fulfilled"]

\* an effect that calls loadStressData() itself instead of leaving it to
\* the end of loadGeoTIFF
LoadStressFirst(rec) ==
    [rec EXCEPT !.pc = "vFetch",
                !.log = Append(@, StStress),
                !.issued = @ \o StressUrls,
                !.promise = "pending"]

\* loadGeoTIFF up to its first await
LoadGeoTIFFStart(rec) ==
    [rec EXCEPT !.pc = "rFetch",
                !.log = Append(@, StFetching),
                !.issued = Append(@, RasterUrl),
                !.promise = "pending"]

\* a loadStressData that does not announce itself
LoadStressQuiet(rec) ==
    [rec EXCEPT !.pc = "vFetch",
                !.issued = @ \o StressUrls]

\* loadStressData up to its first await
LoadStressStart(rec) ==
    [rec EXCEPT !.pc = "vFetch",
                !.log = Append(@, StStress),
                !.issued = @ \o StressUrls]

\* a loader that does not test response.ok
ResponseOkUnchecked(out) == TRUE

\* response.ok
ResponseOk(out) == out = "ok"

\* a join that only looks at the first promise
FirstRejects(outs) == outs[1] = "reject"

\* Promise.all(promises) rejects when one of the promises does
AllRejects(outs) == \E i \in Urls : outs[i] = "reject"

\* a test that forgets bounds.isValid()
BoundsPresent(b) == b # "missing"

\* bounds && bounds.isValid()
BoundsUsable(b) == b # "missing" /\ b = "valid"

----------------------------------------------------------------------------
(* The effect body: create the map and the layer control when there is no  *)
(* map, then call loadGeoTIFF(), which runs up to its fetch.  The control  *)
(* that layerControlRef held before is referenced by nothing afterwards,   *)
(* so its entries are dropped from the state.                              *)
Mount ==
    /\ ~mounted
    /\ effects < MaxRuns
    /\ LET r == effects + 1
           fresh == mapRef = Null
       IN  /\ mapRef' = IF fresh THEN r ELSE mapRef
           /\ layerControlRef' = IF fresh THEN r ELSE layerControlRef
           /\ viewport' = IF fresh THEN [viewport EXCEPT ![r] = "world"]
                                   ELSE viewport
           /\ overlays' = IF fresh /\ layerControlRef # Null
                          THEN [overlays EXCEPT ![layerControlRef] = {}]
                          ELSE overlays
           /\ Finish(r, LoadGeoTIFFStart(run[r]))
           /\ effects' = r
    /\ mounted' = TRUE
    /\ UNCHANGED <<stressLayersRef, onMap, removed, probe>>

\* a cleanup that forgets mapRef.current = null
TeardownKeepsRef ==
    IF mapRef # Null
    THEN /\ removed' = [removed EXCEPT ![mapRef] = @ + 1]
         /\ onMap' = [onMap EXCEPT ![mapRef] = {}]
         /\ viewport' = [viewport EXCEPT ![mapRef] = "none"]
         /\ mapRef' = mapRef
    ELSE UNCHANGED <<removed, onMap, viewport, mapRef>>

\* the body of the cleanup function
Teardown ==
    IF mapRef # Null
    THEN \* map.remove() takes every layer off the map and destroys it
         /\ removed' = [removed EXCEPT ![mapRef] = @ + 1]
         /\ onMap' = [onMap EXCEPT ![mapRef] = {}]
         /\ viewport' = [viewport EXCEPT ![mapRef] = "none"]
         /\ mapRef' = Null
    ELSE UNCHANGED <<removed, onMap, viewport, mapRef>>

(* The cleanup the effect returned. *)
Cleanup ==
    /\ mounted
    /\ mounted' = FALSE
    /\ Teardown
    /\ UNCHANGED <<layerControlRef, stressLayersRef, status, loading, effects,
                   overlays, run, probe>>

(* The same cleanup function called once more, before any re-mount. *)
CleanupAgain ==
    /\ ~mounted
    /\ effects > 0
    /\ Teardown
    /\ UNCHANGED <<mounted, layerControlRef, stressLayersRef, status, loading,
                   effects, overlays, run, probe>>

(* await fetch(url) settles, then the response.ok test. *)
RFetchResolve(r, out) ==
    /\ run[r].pc = "rFetch"
    /\ LET rec == [run[r] EXCEPT !.rfail = CASE out = "reject" -> "network"
                                            [] out = "http" -> "http"
                                            [] OTHER -> "none"]
       IN  Finish(r, IF out = "reject" THEN RasterCatch(rec, MsgNetwork)
                     ELSE IF ~ResponseOk(out) THEN RasterCatch(rec, MsgHttp)
                     ELSE [rec EXCEPT !.pc = "rBody"])
    /\ UNCHANGED <<refVars, mapVars, effects, mounted, probe>>

(* await response.arrayBuffer() settles. *)
RBodyResolve(r, out) ==
    /\ run[r].pc = "rBody"
    /\ Finish(r, IF out = "reject"
                 THEN RasterCatch([run[r] EXCEPT !.rfail = "body"], MsgBody)
                 ELSE [run[r] EXCEPT !.pc = "rParse",
                                     !.log = Append(@, StParsing)])
    /\ UNCHANGED <<refVars, mapVars, effects, mounted, probe>>

(* await parseGeoraster(arrayBuffer) settles; on success the layer is      *)
(* built and added, the viewport fitted, and loadStressData() runs up to   *)
(* its first await.                                                        *)
RParseResolve(r, out, b) ==
    /\ run[r].pc = "rParse"
    /\ IF out = "reject"
       THEN /\ Finish(r, RasterCatch([run[r] EXCEPT !.rfail = "decode"],
                                     MsgDecode))
            /\ UNCHANGED mapVars
       ELSE IF mapRef = Null
       THEN \* layer.addTo(null) throws
            /\ Finish(r, RasterCatch([run[r] EXCEPT !.rfail = "nomap",
                                                    !.log = Append(@, StCreating)],
                                     MsgNoMap))
            /\ UNCHANGED mapVars
       ELSE /\ onMap' = [onMap EXCEPT ![mapRef] = @ \cup {Raster(r)}]
            /\ overlays' = [overlays EXCEPT ![layerControlRef] =
                                @ \cup {[layer |-> Raster(r), name |-> RasterName]}]
            /\ viewport' = IF BoundsUsable(b)
                           THEN [viewport EXCEPT ![mapRef] = "raster"]
                           ELSE viewport
            /\ Finish(r, LoadStressStart(
                   [run[r] EXCEPT
                      !.log = @ \o <<StCreating,
                                     IF BoundsUsable(b) THEN StDisplayed
                                                        ELSE StNoBounds>>,
                      !.fits = IF BoundsUsable(b) THEN @ + 1 ELSE @,
                      !.validBounds = (b = "valid"),
                      !.rasterAdded = TRUE]))
            /\ UNCHANGED removed
    /\ UNCHANGED <<refVars, effects, mounted, probe>>

----------------------------------------------------------------------------
(* loadStressData after its awaits: the block that replaces the overlays.  *)

\* L.geoJSON(dataset, ...) calls style and onEachFeature on every feature;
\* "bad" is a dataset with a feature they throw on (properties.value is
\* no number).  Built(d) is how many datasets the forEach gets through.
Built(d) ==
    IF \E i \in Urls : d[i] = "bad"
    THEN (CHOOSE i \in Urls : d[i] = "bad" /\ \A j \in 1..(i - 1) : d[j] # "bad") - 1
    ELSE NumUrls

\* a loader that clears the whole map instead
WithoutAny(layers, old) == {}

\* stressLayersRef.current.forEach(... removeLayer ...) on the map
WithoutOld(layers, old) == layers \ Range(old)

\* a loader that leaves the old entries in the layer control
EntriesKept(entries, old) == entries

\* ... and on the layer control
EntriesWithoutOld(entries, old) ==
    {e \in entries : e.layer \notin Range(old)}

\* a loader that shows every overlay
ShownAlways(i) == TRUE

\* if (datasetIndex === 0) stressLayer.addTo(mapRef.current)
ShownByDefault(i) == i = 1

\* the layers the forEach adds to the map, having built k datasets
NewOnMap(r, k) == {Stress(r, i) : i \in {j \in 1..k : ShownByDefault(j)}}

\* the entries it adds to the layer control
NewEntries(r, k) == {[layer |-> Stress(r, i), name |-> StressName(i)] : i \in 1..k}

\* what it pushes on stressLayersRef.current
NewRef(r, k) == [i \in 1..k |-> Stress(r, i)]

\* a loader that never calls setLoading(false)
StressDoneSilent(rec) ==
    [Locals(rec) EXCEPT !.log = Append(@, StOverlaid),
                        !.promise = "fulfilled"]

\* the end of the try block: setStatus, setLoading(false)
StressDone(rec) ==
    [Locals(rec) EXCEPT !.log = Append(@, StOverlaid),
                        !.loadingCalls = @ + 1,
                        !.promise = "fulfilled"]

(* Lines 107-162 with every dataset parsed: d is jsonData. *)
ReplaceOverlays(r, rec, d) ==
    LET k == Built(d)
        old == stressLayersRef
    IN  IF mapRef = Null
        THEN \* mapRef.current.removeLayer / stressLayer.addTo(null) throws
             \* before anything is changed, unless L.geoJSON throws first
             /\ Finish(r, IF old = <<>> /\ k = 0
                          THEN StressCatch([rec EXCEPT !.vfail = "build"], MsgBuild)
                          ELSE StressCatch([rec EXCEPT !.vfail = "nomap"], MsgNoMap))
             /\ UNCHANGED <<stressLayersRef, onMap, overlays>>
        ELSE /\ onMap' = [onMap EXCEPT ![mapRef] =
                             WithoutOld(@, old) \cup NewOnMap(r, k)]
             /\ overlays' = [overlays EXCEPT ![layerControlRef] =
                                EntriesWithoutOld(@, old) \cup NewEntries(r, k)]
             /\ stressLayersRef' = NewRef(r, k)
             /\ Finish(r, IF k = NumUrls
                          THEN StressDone(rec)
                          ELSE StressCatch([rec EXCEPT !.vfail = "build"], MsgBuild))

\* a loader that takes the old overlays off as soon as the fetches are in,
\* before it awaits the bodies
VFetchSettleEager(r, outs) ==
    /\ run[r].pc = "vFetch"
    /\ Finish(r, IF AllRejects(outs)
                 THEN StressCatch([run[r] EXCEPT !.vfail = "network"], MsgNetwork)
                 ELSE [run[r] EXCEPT !.pc = "vJson"])
    /\ stressLayersRef' = <<>>
    /\ onMap' = IF mapRef # Null
                THEN [onMap EXCEPT ![mapRef] = WithoutOld(@, stressLayersRef)]
                ELSE onMap
    /\ overlays' = IF mapRef # Null
                   THEN [overlays EXCEPT ![layerControlRef] =
                            EntriesWithoutOld(@, stressLayersRef)]
                   ELSE overlays
    /\ UNCHANGED <<mapRef, layerControlRef, viewport, removed, effects, mounted,
                   probe>>

(* await Promise.all(urls.map(url => fetch(url))) settles: outs[i] is how  *)
(* the i-th fetch ended.  Promise.all rejects when any of them rejects;    *)
(* response.ok is not looked at.                                           *)
VFetchSettle(r, outs) ==
    /\ run[r].pc = "vFetch"
    /\ LET rec == [run[r] EXCEPT !.vfail = IF \E i \in Urls : outs[i] = "reject"
                                           THEN "network" ELSE "none"]
       IN  Finish(r, IF AllRejects(outs)
                     THEN StressCatch(rec, MsgNetwork)
                     ELSE \* responses.map(res => res.json())
                          [rec EXCEPT !.pc = "vJson",
                                      !.non2xx = \E i \in Urls : outs[i] = "http"])
    /\ UNCHANGED <<refVars, mapVars, effects, mounted, probe>>

(* await Promise.all(responses.map(res => res.json())) settles: outs[i] is *)
(* how the i-th body parsed.  On success the overlays are replaced.        *)
VJsonSettle(r, outs) ==
    /\ run[r].pc = "vJson"
    /\ LET rec == [run[r] EXCEPT !.vfail = IF \E i \in Urls : outs[i] = "reject"
                                           THEN "parse" ELSE "none"]
       IN  IF AllRejects(outs)
           THEN /\ Finish(r, StressCatch(rec, MsgParse))
                /\ UNCHANGED <<stressLayersRef, onMap, overlays>>
           ELSE ReplaceOverlays(r, rec, outs)
    /\ UNCHANGED <<mapRef, layerControlRef, viewport, removed, effects, mounted,
                   probe>>

----------------------------------------------------------------------------
FetchOutcomes == {"reject", "http", "ok"}
AwaitOutcomes == {"reject", "ok"}
BoundsOutcomes == {"missing", "invalid", "valid"}
JsonOutcomes == {"reject", "good", "bad"}

Next ==
    \/ Mount
    \/ Cleanup
    \/ CleanupAgain
    \/ \E r \in Runs, out \in FetchOutcomes : RFetchResolve(r, out)
    \/ \E r \in Runs, out \in AwaitOutcomes : RBodyResolve(r, out)
    \/ \E r \in Runs, out \in AwaitOutcomes, b \in BoundsOutcomes :
          RParseResolve(r, out, b)
    \/ \E r \in Runs, outs \in [Urls -> FetchOutcomes] : VFetchSettle(r, outs)
    \/ \E r \in Runs, outs \in [Urls -> JsonOutcomes] : VJsonSettle(r, outs)

Spec == Init /\ [][Next]_vars

(* The promise run r is waiting for settles, one way or the other. *)
Settle(r) ==
    \/ \E out \in FetchOutcomes : RFetchResolve(r, out)
    \/ \E out \in AwaitOutcomes : RBodyResolve(r, out)
    \/ \E out \in AwaitOutcomes, b \in BoundsOutcomes : RParseResolve(r, out, b)
    \/ \E outs \in [Urls -> FetchOutcomes] : VFetchSettle(r, outs)
    \/ \E outs \in [Urls -> JsonOutcomes] : VJsonSettle(r, outs)

(* Every fetch, body read and parse eventually resolves or rejects; the    *)
(* component need never be mounted or unmounted.                           *)
LiveSpec == Spec /\ \A r \in Runs : WF_vars(Settle(r))

----------------------------------------------------------------------------
(* The two pure functions handed to the layers: style of L.geoJSON and     *)
(* pixelValuesToColorFn of GeoRasterLayer.  Numbers are counted in         *)
(* hundredths: a stress value of 0.3 is 30, a hue of 120 is 12000.         *)

\* how far the stress values and the pixel values looked at reach, in
\* hundredths, on either side of 0
MaxStress == 150
MaxPixel == 120

\* the 1 of Math.min(1, ...), the 0.3 of the stroke test, the 120 of the
\* hue, the 255 of the intensity
One == 100
RedThreshold == 30
HueFactor == 120
MaxIntensity == 255

Min(a, b) == IF a <= b THEN a ELSE b
Max(a, b) == IF a >= b THEN a ELSE b

\* a clamp without the lower limit
ClampUpperOnly(x) == Min(One, x)

\* Math.min(1, Math.max(0, ndviValue))
Clamp01(x) == Min(One, Max(0, x))

\* style: fillColor is hsl(h, 100%, 50%); only h is kept here
Style(ndviValue) ==
    LET stressValue == Clamp01(ndviValue)
        h == stressValue * HueFactor
    IN  IF ndviValue <= RedThreshold
        THEN [hue |-> h, color |-> "red", weight |-> 50, fillOpacity |-> 70]
        ELSE [hue |-> h, color |-> "green", weight |-> 50, fillOpacity |-> 70]

\* JavaScript values a band or noDataValue can hold
Num(n) == [t |-> "number", n |-> n]
NaN == [t |-> "NaN", n |-> 0]
JsNull == [t |-> "null", n |-> 0]
Undefined == [t |-> "undefined", n |-> 0]

\* a === b
StrictEq(a, b) == a.t # "NaN" /\ a = b

\* a == null
LooseNull(a) == a.t \in {"null", "undefined"}

\* Math.min(255, Math.max(0, value * 255)), which is NaN for NaN
Intensity(value) ==
    IF value.t = "NaN" THEN NaN
    ELSE Num(Min(MaxIntensity * One, Max(0, value.n * MaxIntensity)))

\* pixelValuesToColorFn(values) with values[0] = value: null, or the gray
\* rgba(i, i, i, 0.5)
PixelColor(value, noDataValue) ==
    IF StrictEq(value, noDataValue) \/ LooseNull(value)
    THEN [t |-> "null"]
    ELSE [t |-> "rgba", intensity |-> Intensity(value), alpha |-> 50]

StressValues == (0 - MaxStress)..MaxStress
PixelValues == {Num(n) : n \in (0 - MaxPixel)..MaxPixel} \cup {NaN, Undefined, JsNull}
NoDataValues == {Num(0), Num(0 - MaxPixel), Num(MaxPixel), NaN, Undefined, JsNull}

(* Leaflet styles a feature whose properties.value is v. *)
StyleCall(v) ==
    /\ probe' = [fn |-> "style", v |-> v, out |-> Style(v)]
    /\ UNCHANGED loadVars

(* The raster layer colours a pixel. *)
PixelCall(value, noDataValue) ==
    /\ probe' = [fn |-> "pixel", value |-> value, noData |-> noDataValue,
                 out |-> PixelColor(value, noDataValue)]
    /\ UNCHANGED loadVars

PureNext ==
    \/ \E v \in StressValues : StyleCall(v)
    \/ \E value \in PixelValues, nd \in NoDataValues : PixelCall(value, nd)

PureSpec == Init /\ [][PureNext]_vars

----------------------------------------------------------------------------
(* What the properties below speak of. *)

StressOf(r) == {Stress(r, i) : i \in Urls}

\* run r fetched a vector resource
VectorFetched(r) == \E i \in Urls : StressUrls[i] \in Range(run[r].issued)

\* a stress overlay of run r is on a map, in a layer control or in
\* stressLayersRef
StressRegistered(r) ==
    \/ \E m \in Runs : onMap[m] \cap StressOf(r) # {}
    \/ \E c \in Runs : \E e \in overlays[c] : e.layer \in StressOf(r)
    \/ Range(stressLayersRef) \cap StressOf(r) # {}

\* the step in which loadStressData of run r ends without an error
VectorSucceeds(r) ==
    /\ run[r].pc = "vJson"
    /\ run'[r].pc = "done"
    /\ Last(run'[r].log) = StOverlaid

\* the step in which loadStressData of run r ends in its catch block
VectorFails(r) ==
    /\ run[r].pc \in {"vFetch", "vJson"}
    /\ run'[r].pc = "done"
    /\ Last(run'[r].log) # StOverlaid

StressEntries(entries) == {e \in entries : IsStress(e.layer)}
RasterEntries(entries) == {e \in entries : ~IsStress(e.layer)}
StressLayers(layers) == {l \in layers : IsStress(l)}
RasterLayers(layers) == {l \in layers : ~IsStress(l)}

----------------------------------------------------------------------------
\* C1: when the raster load of a run fails (fetch rejected, non-success
\* status, body or decode error, or no map to add the layer to), that run
\* never fetches a vector resource and none of its stress overlays is ever
\* on a map, in a layer control or in stressLayersRef.
C1_RasterFailureSkipsVector ==
    \A r \in Runs :
        run[r].rfail # "none" => ~VectorFetched(r) /\ ~StressRegistered(r)

\* a run whose raster fetch came back with a non-success status has ended
\* while another run went on to its vector fetches
C1_Witness ==
    \E r, q \in Runs :
        /\ run[r].rfail = "http" /\ run[r].pc = "done"
        /\ run[q].pc = "vFetch"

\* C2: a run fetches vector resources, and has stress overlays registered,
\* only after its raster sequence is complete: fetch, decode, the raster
\* layer added to map and layer control, and the bounds status set.
C2_RasterBeforeVector ==
    \A r \in Runs :
        (VectorFetched(r) \/ StressRegistered(r)) =>
            /\ run[r].rasterAdded
            /\ Len(run[r].log) >= 5
            /\ SubSeq(run[r].log, 1, 3) = <<StFetching, StParsing, StCreating>>
            /\ run[r].log[4] \in {StDisplayed, StNoBounds}
            /\ run[r].log[5] = StStress
            /\ run[r].issued[1] = RasterUrl

\* a run is waiting for its vector fetches with its raster layer on the map
C2_Witness ==
    \E r \in Runs :
        /\ run[r].pc = "vFetch"
        /\ mapRef # Null
        /\ Raster(r) \in onMap[mapRef]

\* C3: when a vector fetch or a JSON parse of the batch fails, the step
\* changes no map, no layer control and not stressLayersRef, registers no
\* overlay of its own, and reports "Error loading stress data: ...".
C3_BatchAllOrNothing ==
    [][\A r \in Runs :
          (/\ run[r].pc \in {"vFetch", "vJson"}
           /\ run'[r].pc = "done"
           /\ run'[r].vfail \in {"network", "parse"}) =>
              /\ onMap' = onMap
              /\ overlays' = overlays
              /\ stressLayersRef' = stressLayersRef
              /\ ~StressRegistered(r)'
              /\ status' \in {StressErrorStatus(MsgNetwork),
                              StressErrorStatus(MsgParse)}]_vars

\* a batch failed on a parse while the overlays of an earlier successful
\* load were registered, and they still are
C3_Witness ==
    \E r \in Runs :
        /\ run[r].vfail = "parse"
        /\ status = StressErrorStatus(MsgParse)
        /\ Len(stressLayersRef) = NumUrls
        /\ loading = FALSE
        /\ mapRef # Null
        /\ stressLayersRef[1] \in onMap[mapRef]

\* C4: right after a successful vector load by run r, the current layer
\* control holds exactly one stress entry per source path, all of run r,
\* and no stress overlay of another run is left on the current map, in the
\* control or in stressLayersRef.
C4_ReplacementIsIdempotent ==
    [][\A r \in Runs :
          VectorSucceeds(r) =>
              /\ StressEntries(overlays'[layerControlRef']) =
                    {[layer |-> Stress(r, i), name |-> StressName(i)] : i \in Urls}
              /\ \A i \in Urls :
                    Cardinality({e \in overlays'[layerControlRef'] :
                                    e.name = StressName(i)}) = 1
              /\ StressLayers(onMap'[mapRef']) \subseteq StressOf(r)
              /\ stressLayersRef' = [i \in Urls |-> Stress(r, i)]]_vars

\* two runs have loaded the overlays successfully on the same map, run 1
\* after run 2
C4_Witness ==
    /\ run[1].pc = "done" /\ Last(run[1].log) = StOverlaid
    /\ run[2].pc = "done" /\ Last(run[2].log) = StOverlaid
    /\ stressLayersRef = <<Stress(1, 1), Stress(1, 2)>>
    /\ mapRef = 2
    /\ StressEntries(overlays[2]) # {}

\* C5: a successful vector load calls setLoading(false) exactly once and
\* leaves the loading flag false; no run calls it more than once, and the
\* flag, once false, never becomes true again.
C5_LoadingClearedOnce ==
    [][/\ loading = FALSE => loading' = FALSE
       /\ \A r \in Runs :
             /\ run'[r].loadingCalls <= 1
             /\ VectorSucceeds(r) =>
                   /\ run[r].loadingCalls = 0
                   /\ run'[r].loadingCalls = 1
                   /\ loading' = FALSE]_vars

\* the raster and both vector sources have loaded and the flag is false
C5_Witness ==
    \E r \in Runs :
        /\ run[r].pc = "done"
        /\ Last(run[r].log) = StOverlaid
        /\ run[r].loadingCalls = 1
        /\ loading = FALSE

\* C6: the current layer control never holds two entries of the same name
\* ("GeoTIFF Base Layer", "Stress Sample i"), also when the effect has
\* run more than once.
C6_OneEntryPerName ==
    layerControlRef # Null =>
        \A n \in {RasterName} \cup {StressName(i) : i \in Urls} :
            Cardinality({e \in overlays[layerControlRef] : e.name = n}) <= 1

\* C7: right after a successful vector load by run r, the only stress
\* overlay on the current map is the one of the first resource; the others
\* are entries of the layer control and are not on the map.
C7_OnlyFirstOverlayShown ==
    [][\A r \in Runs :
          VectorSucceeds(r) =>
              /\ StressLayers(onMap'[mapRef']) = {Stress(r, 1)}
              /\ \A i \in Urls \ {1} :
                    /\ Stress(r, i) \notin onMap'[mapRef']
                    /\ [layer |-> Stress(r, i), name |-> StressName(i)]
                          \in overlays'[layerControlRef']]_vars

\* the overlays have just been loaded: the first is on the map, the second
\* is in the layer control only
C7_Witness ==
    /\ status = StOverlaid
    /\ mapRef # Null
    /\ Len(stressLayersRef) = NumUrls
    /\ StressLayers(onMap[mapRef]) = {stressLayersRef[1]}
    /\ \E e \in overlays[layerControlRef] : e.layer = stressLayersRef[2]

\* C8: a step in which a vector load fails changes no raster layer on any
\* map, no raster entry of any layer control and no viewport; a raster
\* layer of the run that was on the current map is still there and still
\* registered as "GeoTIFF Base Layer".
C8_VectorFailureKeepsRaster ==
    [][\A r \in Runs :
          VectorFails(r) =>
              /\ viewport' = viewport
              /\ \A m \in Runs :
                    /\ RasterLayers(onMap'[m]) = RasterLayers(onMap[m])
                    /\ RasterEntries(overlays'[m]) = RasterEntries(overlays[m])
              /\ (mapRef # Null /\ Raster(r) \in onMap[mapRef]) =>
                    /\ mapRef' = mapRef
                    /\ Raster(r) \in onMap'[mapRef']
                    /\ [layer |-> Raster(r), name |-> RasterName]
                          \in overlays'[layerControlRef']]_vars

\* a vector load failed while building a layer, after the old overlays
\* were taken off, and the raster layer of that run is on the map
C8_Witness ==
    \E r \in Runs :
        /\ run[r].pc = "done"
        /\ run[r].vfail = "build"
        /\ status = StressErrorStatus(MsgBuild)
        /\ mapRef # Null
        /\ Raster(r) \in onMap[mapRef]
        /\ viewport[mapRef] = "raster"

\* the message of each failure
RasterMsg(kind) ==
    CASE kind = "network" -> MsgNetwork
      [] kind = "http" -> MsgHttp
      [] kind = "body" -> MsgBody
      [] kind = "decode" -> MsgDecode
      [] kind = "nomap" -> MsgNoMap

VectorMsg(kind) ==
    CASE kind = "network" -> MsgNetwork
      [] kind = "parse" -> MsgParse
      [] kind = "build" -> MsgBuild
      [] kind = "nomap" -> MsgNoMap

RasterErrors == {RasterErrorStatus(RasterMsg(k)) :
                    k \in {"network", "http", "body", "decode", "nomap"}}
               \cup {RasterErrorStatus(VectorMsg(k)) :
                    k \in {"network", "parse", "build", "nomap"}}

\* C9: every failure ends the run at once with a status: a raster failure
\* with "Error: " + message, a vector failure with "Error loading stress
\* data: " + message and with no "Error: ..." status written by that run;
\* the promise of loadGeoTIFF is never rejected and is fulfilled when the
\* run is over.
C9_ErrorsCaughtAtOwnBoundary ==
    \A r \in Runs :
        /\ run[r].promise # "rejected"
        /\ run[r].pc = "done" => run[r].promise = "fulfilled"
        /\ run[r].rfail # "none" =>
              /\ run[r].pc = "done"
              /\ Last(run[r].log) = RasterErrorStatus(RasterMsg(run[r].rfail))
        /\ run[r].vfail # "none" =>
              /\ run[r].pc = "done"
              /\ Last(run[r].log) = StressErrorStatus(VectorMsg(run[r].vfail))
              /\ Range(run[r].log) \cap RasterErrors = {}

\* one run has ended on a decode error and another on a vector parse error
C9_Witness ==
    \E r, q \in Runs :
        /\ run[r].rfail = "decode" /\ run[r].pc = "done"
        /\ run[q].vfail = "parse" /\ run[q].pc = "done"
        /\ status = StressErrorStatus(MsgParse)

\* the step in which run r adds its raster layer
RasterAdds(r) == run[r].pc = "rParse" /\ run'[r].rasterAdded

\* C10: the step that adds the raster layer fits the viewport exactly when
\* the layer's bounds are valid, with status "GeoTIFF displayed
\* successfully"; with missing or invalid bounds no viewport changes and
\* the status is "GeoTIFF loaded, but no valid bounds"; either way the run
\* goes on to the vector fetches; no other step of the run fits the
\* viewport, so a run fits it at most once.
C10_FitIffValidBounds ==
    [][\A r \in Runs :
          /\ run'[r].fits <= 1
          /\ ~RasterAdds(r) => run'[r].fits = run[r].fits
          /\ RasterAdds(r) =>
                /\ Raster(r) \in onMap'[mapRef]
                /\ run'[r].pc = "vFetch"
                /\ VectorFetched(r)'
                /\ IF run'[r].validBounds
                   THEN /\ viewport' = [viewport EXCEPT ![mapRef] = "raster"]
                        /\ run'[r].fits = run[r].fits + 1
                        /\ run'[r].log[4] = StDisplayed
                   ELSE /\ viewport' = viewport
                        /\ run'[r].fits = run[r].fits
                        /\ run'[r].log[4] = StNoBounds]_vars

\* a run added its raster layer with invalid bounds to a map whose
\* viewport is still the initial one, after another run had fitted its own
C10_Witness ==
    \E r, q \in Runs :
        /\ run[r].rasterAdded /\ ~run[r].validBounds /\ run[r].fits = 0
        /\ run[r].pc = "vFetch"
        /\ mapRef # Null /\ viewport[mapRef] = "world"
        /\ Raster(r) \in onMap[mapRef]
        /\ run[q].validBounds /\ run[q].fits = 1

----------------------------------------------------------------------------
\* C11: no map is ever removed twice; a map that mapRef stops pointing to
\* has been removed; when the cleanup has run, every map created so far
\* (one per effect run, numbered like the runs) has been removed exactly
\* once and mapRef is null; and while mapRef is null and stays null, so
\* in a repeated cleanup call, no map is removed or changed.
C11_MapReleasedOnce ==
    [][/\ \A m \in Runs : removed'[m] <= 1
       /\ (mapRef # Null /\ mapRef' # mapRef) => removed'[mapRef] = 1
       /\ (mounted /\ ~mounted') =>
             /\ mapRef' = Null
             /\ \A m \in 1..effects : removed'[m] = 1
       /\ (mapRef = Null /\ mapRef' = Null) =>
             removed' = removed /\ onMap' = onMap]_vars

\* the effect ran twice and was cleaned up twice: both maps are released
C11_Witness ==
    /\ effects = 2
    /\ ~mounted
    /\ mapRef = Null
    /\ removed[1] = 1 /\ removed[2] = 1

\* the stress overlays as a callback can see them: stressLayersRef, the
\* stress entries of the current layer control, the stress layers on the
\* current map
StressState ==
    <<stressLayersRef,
      IF layerControlRef # Null THEN StressEntries(overlays[layerControlRef]) ELSE {},
      IF mapRef # Null THEN StressLayers(onMap[mapRef]) ELSE {}>>

\* C12: a run has stress overlays registered only when its loadStressData
\* is over, so it is never suspended between its own layer mutations; and
\* with map and control staying the same, the stress overlays only change
\* in the one step in which a run leaves its last await (the join of the
\* parses) and finishes.
C12_BlockHasNoSuspensionPoint ==
    [][/\ \A r \in Runs : StressRegistered(r)' => run'[r].pc = "done"
       /\ (/\ mapRef' = mapRef
           /\ layerControlRef' = layerControlRef
           /\ StressState' # StressState) =>
             \E r \in Runs : run[r].pc = "vJson" /\ run'[r].pc = "done"]_vars

\* two runs in flight on one map: one has replaced the overlays, the other
\* is still waiting for its parses
C12_Witness ==
    \E r, q \in Runs :
        /\ r # q
        /\ run[q].pc = "vJson"
        /\ run[r].pc = "done"
        /\ stressLayersRef = [i \in Urls |-> Stress(r, i)]
        /\ mapRef # Null
        /\ Raster(q) \in onMap[mapRef]
        /\ Stress(r, 1) \in onMap[mapRef]

----------------------------------------------------------------------------
\* C13 (under PureSpec): for a stress value v, the hue is 120 times v
\* clamped to [0, 1], so it lies in [0, 120] and no smaller value has a
\* larger hue; the stroke is red exactly when the clamped value is at most
\* 0.3, green otherwise; weight 0.5 and fill opacity 0.7 either way.
C13_StyleClampsAndClassifies ==
    probe.fn = "style" =>
        LET v == probe.v
            c == IF v < 0 THEN 0 ELSE IF v > 100 THEN 100 ELSE v
        IN  /\ probe.out.hue = c * 120
            /\ probe.out.hue >= 0 /\ probe.out.hue <= 12000
            /\ \A w \in StressValues : w <= v => Style(w).hue <= probe.out.hue
            /\ probe.out.color = (IF c <= 30 THEN "red" ELSE "green")
            /\ probe.out.weight = 50
            /\ probe.out.fillOpacity = 70

\* a value below 0 has been styled: hue 0, red stroke
C13_Witness ==
    /\ probe.fn = "style"
    /\ probe.v < 0
    /\ probe.out.hue = 0
    /\ probe.out.color = "red"

\* C14 (under PureSpec): a pixel whose first band is the no-data value, or
\* is null or undefined, gets no colour; every other pixel gets a gray of
\* opacity 0.5 whose intensity is a number in [0, 255], namely 255 times
\* the value, clamped.
C14_PixelColor ==
    probe.fn = "pixel" =>
        IF probe.value = probe.noData \/ probe.value \in {JsNull, Undefined}
        THEN probe.out.t = "null"
        ELSE /\ probe.out.t = "rgba"
             /\ probe.out.alpha = 50
             /\ probe.out.intensity.t = "number"
             /\ probe.out.intensity.n >= 0
             /\ probe.out.intensity.n <= 25500
             /\ probe.value.t = "number" =>
                   probe.out.intensity.n =
                      (IF probe.value.n < 0 THEN 0
                       ELSE IF probe.value.n > 100 THEN 25500
                       ELSE probe.value.n * 255)

----------------------------------------------------------------------------
\* C15: when one of the vector responses came with a non-success status,
\* the run's loadStressData ends with an error status and none of its
\* overlays is on a map, in a layer control or in stressLayersRef.
C15_Non2xxFailsBatch ==
    [][\A r \in Runs :
          (run[r].pc = "vJson" /\ run[r].non2xx /\ run'[r].pc = "done") =>
              /\ Last(run'[r].log) # StOverlaid
              /\ ~StressRegistered(r)']_vars

\* C16: the step that ends a run's loadStressData leaves either the
\* complete previous overlays (nothing changed on any map, in any control
\* or in stressLayersRef) or the complete new ones (stressLayersRef and
\* the stress entries of the current control are the run's NumUrls
\* overlays), also when building a layer throws.
C16_NoPartialOverlays ==
    [][\A r \in Runs :
          (run[r].pc = "vJson" /\ run'[r].pc = "done") =>
              \/ /\ stressLayersRef' = stressLayersRef
                 /\ onMap' = onMap
                 /\ overlays' = overlays
              \/ /\ stressLayersRef' = [i \in Urls |-> Stress(r, i)]
                 /\ StressEntries(overlays'[layerControlRef']) =
                       {[layer |-> Stress(r, i), name |-> StressName(i)] : i \in Urls}]_vars

\* the cleanup of the effect that started run r has run
TornDown(r) == run[r].pc # "idle" /\ (r < effects \/ ~mounted)

\* C19: once the cleanup of its effect has run, a run adds none of its
\* layers to any map or layer control.
C19_NoMutationAfterTeardown ==
    [][\A r \in Runs :
          TornDown(r) =>
              \A m \in Runs :
                  /\ {l \in onMap'[m] : l[1] = r} \subseteq onMap[m]
                  /\ {e \in overlays'[m] : e.layer[1] = r} \subseteq overlays[m]]_vars

----------------------------------------------------------------------------
\* the phases of a run, in order, with either outcome of the bounds test
Phases(boundsStatus) ==
    <<StFetching, StParsing, StCreating, boundsStatus, StStress, StOverlaid>>

ErrorStatuses ==
    {RasterErrorStatus(RasterMsg(k)) : k \in {"network", "http", "body", "decode", "nomap"}}
    \cup {StressErrorStatus(VectorMsg(k)) : k \in {"network", "parse", "build", "nomap"}}

IsPrefix(s, t) == Len(s) <= Len(t) /\ SubSeq(t, 1, Len(s)) = s

\* the statuses a run may have written so far: the phases in order from
\* the first, none skipped or repeated, or some of them and then one error
PhaseLog(log) ==
    \E bs \in {StDisplayed, StNoBounds} :
        \/ IsPrefix(log, Phases(bs))
        \/ /\ Len(log) >= 2
           /\ Len(log) <= Len(Phases(bs))
           /\ IsPrefix(SubSeq(log, 1, Len(log) - 1), Phases(bs))
           /\ Last(log) \in ErrorStatuses

\* C17: the status is "Loading map..." until the first run; the statuses
\* a run writes are the phases in their fixed order, none skipped or
\* repeated, possibly cut short by one error status; each step only adds
\* to them, the shown status is always the last one some run wrote, and a
\* run that has written an error or the final success status is over and
\* writes nothing more.
C17_StatusFollowsPhases ==
    [][/\ effects' = 0 => status' = "Loading map..."
       /\ status' # status =>
             \E r \in Runs : run'[r].log # run[r].log /\ status' = Last(run'[r].log)
       /\ \A r \in Runs :
             /\ PhaseLog(run'[r].log)
             /\ IsPrefix(run[r].log, run'[r].log)
             /\ run[r].pc = "done" => run'[r].log = run[r].log
             /\ run'[r].pc = "done" <=>
                   (/\ run'[r].log # <<>>
                    /\ Last(run'[r].log) \in ErrorStatuses \cup {StOverlaid})]_vars

\* one run went through every phase, another was cut short by an error
\* after "Creating GeoTIFF layer..."
C17_Witness ==
    \E r, q \in Runs :
        /\ run[r].log = Phases(StNoBounds)
        /\ Len(run[q].log) = 4
        /\ run[q].log[3] = StCreating
        /\ run[q].log[4] = RasterErrorStatus(MsgNoMap)

\* run r ended in an error
Failed(r) == run[r].pc = "done" /\ Last(run[r].log) # StOverlaid

\* C18: a run calls setLoading(false) only when it ends with "Stress data
\* overlaid successfully", never on a failure path; the flag is false only
\* when some run did; and with a single run, the flag is false only while
\* the status is "Stress data overlaid successfully" and both stress
\* overlays are registered, and it is true whenever that run has failed.
C18_LoadingFalseOnlyOnSuccess ==
    /\ \A r \in Runs :
          /\ Failed(r) => run[r].loadingCalls = 0
          /\ run[r].loadingCalls > 0 =>
                run[r].pc = "done" /\ Last(run[r].log) = StOverlaid
    /\ loading = FALSE => \E r \in Runs : run[r].loadingCalls = 1
    /\ effects <= 1 =>
          /\ loading = FALSE =>
                /\ status = StOverlaid
                /\ stressLayersRef = [i \in Urls |-> Stress(1, i)]
                /\ \A i \in Urls :
                      [layer |-> Stress(1, i), name |-> StressName(i)]
                         \in overlays[layerControlRef]
          /\ (effects = 1 /\ Failed(1)) => loading = TRUE

\* the only run failed in its vector load: the error status is shown and
\* the loading flag is still true
C18_Witness ==
    /\ effects = 1
    /\ Failed(1)
    /\ run[1].vfail = "parse"
    /\ status = StressErrorStatus(MsgParse)
    /\ loading = TRUE

\* the three final outcomes of a run
SuccessStatuses == {StOverlaid}
RasterErrorStatuses ==
    {RasterErrorStatus(RasterMsg(k)) :
        k \in {"network", "http", "body", "decode", "nomap"}}
StressErrorStatuses ==
    {StressErrorStatus(VectorMsg(k)) :
        k \in {"network", "parse", "build", "nomap"}}
FinalOutcomes == {SuccessStatuses, RasterErrorStatuses, StressErrorStatuses}

\* the phases a run waits in
WaitingStatuses == {StFetching, StParsing, StStress}

NoDuplicates(s) == \A i, j \in 1..Len(s) : s[i] = s[j] => i = j

\* C20: when every fetch, body read and parse settles, every run that has
\* started ends; it ends with exactly one of the success status, an
\* "Error: ..." status and an "Error loading stress data: ..." status, and
\* stays ended; until then its last status is a phase it waits in; and it
\* requests no URL twice.
C20_EveryRunTerminates ==
    /\ [](\A r \in Runs :
            /\ NoDuplicates(run[r].issued)
            /\ run[r].pc = "done" =>
                  Cardinality({o \in FinalOutcomes : Last(run[r].log) \in o}) = 1
            /\ run[r].pc \notin {"idle", "done"} =>
                  Last(run[r].log) \in WaitingStatuses)
    /\ [][\A r \in Runs : run[r].pc = "done" => run'[r] = run[r]]_vars
    /\ \A r \in Runs : (run[r].pc # "idle") ~> (run[r].pc = "done")

\* one run ended with the success status and another with a vector error
C20_Witness ==
    \E r, q \in Runs :
        /\ run[r].pc = "done" /\ Last(run[r].log) = StOverlaid
        /\ run[q].pc = "done" /\ Last(run[q].log) \in StressErrorStatuses
        /\ Len(run[r].issued) = 1 + NumUrls

====
